---- MODULE Spec2Model ----
(***************************************************************************)
(* Model of the stochastic-oscillator trading strategy.                    *)
(*                                                                         *)
(* Two scripts implement stochastic_strategy:                              *)
(*   "script"     : stochastic_strategy_comments_script.py (optional MACD  *)
(*                  filter, works on the caller's DataFrame in place)      *)
(*   "tatamotors" : stochastic_strategy_tatamotors_commented.py (copies    *)
(*                  the input, drops rows with NaN indicators)             *)
(*                                                                         *)
(* A float is modelled as an exact rational or one of the IEEE specials    *)
(* NaN, +inf, -inf.  A DataFrame is a record of its index labels and its   *)
(* columns (a function from the column name to the column's values).       *)
(* stochastic_strategy runs with the window sizes its helpers default to   *)
(* (200, 14/3 or 21/5, 12/26/9); calculate_stochastics called on its own   *)
(* takes its windows as arguments.  The Open column is never read by the   *)
(* strategy and is left out.                                               *)
(***************************************************************************)
EXTENDS Integers, Sequences, FiniteSets, TLC

VARIABLES impl, input, cfg, df, data, pc

vars == <<impl, input, cfg, df, data, pc>>

(***************************************************************************)
(* Window sizes of the source.                                             *)
(***************************************************************************)
EMA_PERIOD == 200
K_PERIOD_SCRIPT == 14
D_PERIOD_SCRIPT == 3
K_PERIOD_TATAMOTORS == 21
D_PERIOD_TATAMOTORS == 5
MACD_FAST == 12
MACD_SLOW == 26
MACD_SIGNAL == 9

(***************************************************************************)
(* Bounds of the model.                                                    *)
(***************************************************************************)
MaxTail == 5
MaxTailScript == 4
MaxLenStoch == 4
MaxK == 2
MaxD == 2

(***************************************************************************)
(* Natural numbers of any size, as little-endian sequences of limbs below  *)
(* Base without a leading zero limb (<<>> is 0).  The limbs of a sum are   *)
(* given position by position, the carry into a position being decided by *)
(* the positions below it.                                                 *)
(***************************************************************************)
Base == 10000

Abs(x) == IF x < 0 THEN -x ELSE x

RECURSIVE MagOfNat(_)
MagOfNat(n) == IF n = 0 THEN <<>> ELSE <<n % Base>> \o MagOfNat(n \div Base)

\* without the leading zero limbs
MagStrip(m) ==
    IF m = <<>> THEN <<>>
    ELSE IF m[Len(m)] # 0 THEN m
    ELSE IF \A i \in 1..Len(m) : m[i] = 0 THEN <<>>
    ELSE SubSeq(m, 1, Len(m) - (CHOOSE d \in 1..(Len(m) - 1) :
                                   m[Len(m) - d] # 0 /\ \A j \in 1..(d - 1) : m[Len(m) - j] = 0))

\* sign of a - b: the highest limb in which they differ decides
MagCmp(a, b) ==
    IF Len(a) < Len(b) THEN -1
    ELSE IF Len(a) > Len(b) THEN 1
    ELSE IF a = b THEN 0
    ELSE LET n == Len(a)
             d == CHOOSE d \in 0..(n - 1) :
                      a[n - d] # b[n - d] /\ \A j \in 0..(d - 1) : a[n - j] = b[n - j]
         IN  IF a[n - d] < b[n - d] THEN -1 ELSE 1

\* a + b for limbs below Base: the carry into position i comes from the
\* nearest position below i whose sum is not Base - 1
MagAdd(a, b) ==
    IF a = <<>> THEN b
    ELSE IF b = <<>> THEN a
    ELSE LET n == IF Len(a) >= Len(b) THEN Len(a) ELSE Len(b)
             s == [i \in 1..n |-> (IF i <= Len(a) THEN a[i] ELSE 0)
                                  + (IF i <= Len(b) THEN b[i] ELSE 0)] \o <<>>
             carry(i) ==
                 IF /\ i > 1
                    /\ \/ s[i - 1] >= Base
                       \/ /\ s[i - 1] = Base - 1
                          /\ \E d \in 2..(i - 1) :
                                /\ s[i - d] >= Base
                                /\ \A k \in (i - d + 1)..(i - 2) : s[k] = Base - 1
                 THEN 1 ELSE 0
         IN  MagStrip([i \in 1..(n + 1) |->
                         IF i <= n THEN (s[i] + carry(i)) % Base ELSE carry(i)] \o <<>>)

\* a - b for a >= b: the borrow into position i comes from the nearest
\* position below i in which they differ
MagSub(a, b) ==
    LET d == [i \in 1..Len(a) |-> a[i] - (IF i <= Len(b) THEN b[i] ELSE 0)] \o <<>>
        borrow(i) ==
            IF /\ i > 1
               /\ \/ d[i - 1] < 0
                  \/ /\ d[i - 1] = 0
                     /\ \E t \in 2..(i - 1) :
                           /\ d[i - t] < 0
                           /\ \A k \in (i - t + 1)..(i - 2) : d[k] = 0
            THEN 1 ELSE 0
    IN  MagStrip([i \in 1..Len(a) |-> (d[i] + Base - borrow(i)) % Base] \o <<>>)

\* a * f for 0 <= f <= Base: the low halves of the limb products plus the
\* high halves one position up
MagMulSmall(a, f) ==
    IF f = 0 \/ a = <<>> THEN <<>>
    ELSE IF f = 1 THEN a
    ELSE MagAdd(MagStrip([i \in 1..Len(a) |-> (a[i] * f) % Base] \o <<>>),
                MagStrip(<<0>> \o [i \in 1..Len(a) |-> (a[i] * f) \div Base]))

RECURSIVE MagMulTo(_, _, _, _)
\* acc + a[i..] * b * Base^(i-1)
MagMulTo(a, b, i, acc) ==
    IF Len(acc) >= 0 /\ i > Len(a) THEN acc
    ELSE MagMulTo(a, b, i + 1,
                  MagAdd(acc, MagStrip([j \in 1..(i - 1) |-> 0] \o MagMulSmall(b, a[i]))))

MagMul(a, b) ==
    IF a = <<>> \/ b = <<>> THEN <<>>
    ELSE IF Len(a) = 1 THEN MagMulSmall(b, a[1])
    ELSE IF Len(b) = 1 THEN MagMulSmall(a, b[1])
    ELSE IF Len(a) <= Len(b) THEN MagMulTo(a, b, 1, <<>>)
    ELSE MagMulTo(b, a, 1, <<>>)

(***************************************************************************)
(* Floats: NaN, +inf, -inf and exact rationals s * m / dm, where s is the  *)
(* sign, m the magnitude of the numerator and dm the denominator, a        *)
(* product of powers of Primes whose exponents are kept in e.  Every       *)
(* denominator the program divides by (a window size, span + 1, a          *)
(* High - Low range of the inputs) is such a product.  The fraction is not *)
(* kept in lowest terms: values are compared with Cmp and Eq.              *)
(***************************************************************************)
Primes == <<2, 3, 5, 7, 11, 13, 67>>

NoDen == [i \in 1..Len(Primes) |-> 0]

NaN == [k |-> "nan", s |-> 0, m |-> <<>>, e |-> NoDen, dm |-> <<1>>]
PInf == [k |-> "pinf", s |-> 0, m |-> <<>>, e |-> NoDen, dm |-> <<1>>]
NInf == [k |-> "ninf", s |-> 0, m |-> <<>>, e |-> NoDen, dm |-> <<1>>]

Num(s, m, e, dm) ==
    IF s = 0 \/ m = <<>> THEN [k |-> "num", s |-> 0, m |-> <<>>, e |-> NoDen, dm |-> <<1>>]
    ELSE [k |-> "num", s |-> s, m |-> m, e |-> e, dm |-> dm]

Float(n) ==
    Num(IF n < 0 THEN -1 ELSE IF n > 0 THEN 1 ELSE 0, MagOfNat(Abs(n)), NoDen, <<1>>)

IsNum(v) == v.k = "num"
IsNaN(v) == v.k = "nan"
IsInf(v) == v.k \in {"pinf", "ninf"}

RECURSIVE Pow(_, _)
Pow(p, k) == IF k = 0 THEN 1 ELSE p * Pow(p, k - 1)

RECURSIVE MaxExp(_, _)
\* the largest k >= c with p^k <= Base
MaxExp(p, c) == IF Pow(p, c + 1) > Base THEN c ELSE MaxExp(p, c + 1)

\* for each prime, the largest power of it that one MagMulSmall takes
ChunkExp == [i \in 1..Len(Primes) |-> MaxExp(Primes[i], 1)]

RECURSIVE MagMulPow(_, _, _)
\* m * Primes[i]^k, by halves of whole chunks
MagMulPow(m, i, k) ==
    IF m = <<>> THEN <<>>
    ELSE IF k <= ChunkExp[i] THEN MagMulSmall(m, Pow(Primes[i], k))
    ELSE LET h == ChunkExp[i] * (((k \div ChunkExp[i]) + 1) \div 2)
         IN  MagMulPow(MagMulPow(m, i, h), i, k - h)

RECURSIVE MagScale(_, _, _)
\* m * the product of Primes[j]^e[j] over j >= i
MagScale(m, e, i) ==
    IF m = <<>> \/ i > Len(Primes) THEN m ELSE MagScale(MagMulPow(m, i, e[i]), e, i + 1)

\* the exponents of a common denominator
Common(e1, e2) == [i \in 1..Len(Primes) |-> IF e1[i] >= e2[i] THEN e1[i] ELSE e2[i]]

\* the denominator with the exponents e = Common(a.e, b.e)
CommonDen(a, b, e) ==
    IF a.e = e THEN a.dm
    ELSE IF b.e = e THEN b.dm
    ELSE MagScale(a.dm, [i \in 1..Len(Primes) |-> e[i] - a.e[i]], 1)

\* the numerator of a over the denominator dm, whose exponents are e
Scaled(a, e, dm) ==
    IF a.e = e THEN a.m
    ELSE IF a.e = NoDen THEN MagMul(a.m, dm)
    ELSE MagScale(a.m, [i \in 1..Len(Primes) |-> e[i] - a.e[i]], 1)

RECURSIVE Factor(_, _, _)
\* the exponents of n > 0 over Primes
Factor(n, i, e) ==
    CASE n = 1 -> e
      [] n > 1 /\ i <= Len(Primes) /\ n % Primes[i] = 0 ->
            Factor(n \div Primes[i], i, [e EXCEPT ![i] = @ + 1])
      [] n > 1 /\ i <= Len(Primes) /\ n % Primes[i] # 0 -> Factor(n, i + 1, e)

\* the value of a magnitude of at most two limbs
NatOfMag(m) ==
    CASE Len(m) = 1 -> m[1]
      [] Len(m) = 2 -> m[1] + Base * m[2]

\* sign of a - b for two rationals
Cmp(a, b) ==
    IF a.s # b.s THEN (IF a.s < b.s THEN -1 ELSE 1)
    ELSE IF a.s = 0 THEN 0
    ELSE LET e  == Common(a.e, b.e)
             dm == CommonDen(a, b, e)
         IN  a.s * MagCmp(Scaled(a, e, dm), Scaled(b, e, dm))

\* equal finite values
Eq(a, b) == IsNum(a) /\ IsNum(b) /\ Cmp(a, b) = 0

\* a < b as IEEE floats compare: false as soon as an operand is NaN
Lt(a, b) ==
    IF IsNaN(a) \/ IsNaN(b) THEN FALSE
    ELSE IF a.k = b.k /\ ~IsNum(a) THEN FALSE
    ELSE IF a.k = "ninf" \/ b.k = "pinf" THEN TRUE
    ELSE IF a.k = "pinf" \/ b.k = "ninf" THEN FALSE
    ELSE Cmp(a, b) < 0

Gt(a, b) == Lt(b, a)

Le(a, b) == IF IsNaN(a) \/ IsNaN(b) THEN FALSE ELSE ~Lt(b, a)

Ge(a, b) == Le(b, a)

Neg(a) ==
    IF IsNum(a) THEN [a EXCEPT !.s = -a.s]
    ELSE IF a.k = "pinf" THEN NInf
    ELSE IF a.k = "ninf" THEN PInf
    ELSE NaN

Add(a, b) ==
    IF IsNaN(a) \/ IsNaN(b) THEN NaN
    ELSE IF IsInf(a) /\ IsInf(b) THEN (IF a.k = b.k THEN a ELSE NaN)
    ELSE IF IsInf(a) THEN a
    ELSE IF IsInf(b) THEN b
    ELSE IF a.s = 0 THEN b
    ELSE IF b.s = 0 THEN a
    ELSE LET e  == Common(a.e, b.e)
             dm == CommonDen(a, b, e)
             x  == Scaled(a, e, dm)
             y  == Scaled(b, e, dm)
             c  == MagCmp(x, y)
         IN  IF a.s = b.s THEN Num(a.s, MagAdd(x, y), e, dm)
             ELSE IF c = 0 THEN Float(0)
             ELSE IF c > 0 THEN Num(a.s, MagSub(x, y), e, dm)
             ELSE Num(b.s, MagSub(y, x), e, dm)

Sub(a, b) == Add(a, Neg(b))

Sign(a) ==
    IF a.k = "pinf" THEN 1
    ELSE IF a.k = "ninf" THEN -1
    ELSE a.s

SignedInf(s) == IF s > 0 THEN PInf ELSE IF s < 0 THEN NInf ELSE NaN

Mul(a, b) ==
    IF IsNaN(a) \/ IsNaN(b) THEN NaN
    ELSE IF IsInf(a) \/ IsInf(b) THEN SignedInf(Sign(a) * Sign(b))
    ELSE Num(a.s * b.s, MagMul(a.m, b.m),
             [i \in 1..Len(Primes) |-> a.e[i] + b.e[i]], MagMul(a.dm, b.dm))

\* numpy float division: x/0 is +-inf, 0/0 is NaN, no exception
Div(a, b) ==
    IF IsNaN(a) \/ IsNaN(b) THEN NaN
    ELSE IF IsInf(a) /\ IsInf(b) THEN NaN
    ELSE IF IsInf(a) THEN SignedInf(Sign(a) * (IF Sign(b) < 0 THEN -1 ELSE 1))
    ELSE IF IsInf(b) THEN Float(0)
    ELSE IF b.s = 0 THEN SignedInf(Sign(a))
    ELSE LET f == Factor(NatOfMag(b.m), 1, NoDen)
         IN  Num(a.s * b.s, MagMul(a.m, b.dm),
                 [i \in 1..Len(Primes) |-> a.e[i] + f[i]], MagMul(a.dm, b.m))

(***************************************************************************)
(* DataFrames.                                                             *)
(***************************************************************************)
Bar(h, l, c) == [High |-> h, Low |-> l, Close |-> c]

\* pd.DataFrame of the bars, default RangeIndex 0..n-1
FrameOf(bars) ==
    [index |-> [i \in 1..Len(bars) |-> i - 1],
     cols  |-> [c \in {"High", "Low", "Close"} |->
                  [i \in 1..Len(bars) |->
                     Float(IF c = "High" THEN bars[i].High
                         ELSE IF c = "Low" THEN bars[i].Low
                         ELSE bars[i].Close)]]]

NRows(f) == Len(f.index)

Columns(f) == DOMAIN f.cols

\* data[name] = values
WithCol(f, name, values) ==
    [index |-> f.index,
     cols  |-> [c \in (DOMAIN f.cols) \cup {name} |->
                  IF c = name THEN values ELSE f.cols[c]]]

\* data[name] = values for a list: a frame whose index is empty first takes
\* the labels 0..len-1 of a non-empty list and fills its columns with NaN
\* (DataFrame._ensure_valid_index), then the column is set
SetItem(f, name, values) ==
    WithCol(IF NRows(f) = 0 /\ Len(values) > 0
            THEN [index |-> [i \in 1..Len(values) |-> i - 1],
                  cols  |-> [c \in DOMAIN f.cols |-> [i \in 1..Len(values) |-> NaN]]]
            ELSE f,
            name, values)

\* the entries of xs at the positions where mask holds, in order
Keep(xs, mask) ==
    LET kept == {i \in 1..Len(xs) : mask[i]}
    IN  [r \in 1..Cardinality(kept) |->
            xs[CHOOSE i \in kept : Cardinality({j \in kept : j <= i}) = r]]

\* data.dropna(subset=...): a new frame without the rows that hold NaN in a
\* subset column; +-inf is not NA
dropna(f, subset) ==
    LET mask == [i \in 1..NRows(f) |-> \A c \in subset : ~IsNaN(f.cols[c][i])]
    IN  [index |-> Keep(f.index, mask),
         cols  |-> [c \in DOMAIN f.cols |-> Keep(f.cols[c], mask)]]

(***************************************************************************)
(* Indicators.                                                             *)
(***************************************************************************)
\* Series.ewm(span=span, adjust=False).mean():
\* y[0] = x[0], y[i] = alpha*x[i] + (1-alpha)*y[i-1] with alpha = 2/(span+1),
\* that is (2*x[i] + (span-1)*y[i-1]) / (span+1)
RECURSIVE EwmRange(_, _, _, _, _)
\* y[lo..hi] given prev = y[lo-1], by halves
EwmRange(xs, span, lo, hi, prev) ==
    IF lo = hi
    THEN <<Div(Add(Mul(Float(2), xs[lo]), Mul(Float(span - 1), prev)), Float(span + 1))>>
    ELSE LET mid  == (lo + hi) \div 2
             left == EwmRange(xs, span, lo, mid, prev)
         IN  left \o EwmRange(xs, span, mid + 1, hi, left[Len(left)])

Ewm(xs, span) ==
    IF Len(xs) <= 1 THEN xs
    ELSE <<xs[1]>> \o EwmRange(xs, span, 2, Len(xs), xs[1])

Window(i, w) == (i - w + 1)..i

\* Series.rolling(window=w).min(): NaN until w observations are in the window
RollingMin(xs, w) ==
    [i \in 1..Len(xs) |->
        IF i < w THEN NaN
        ELSE CHOOSE m \in {xs[j] : j \in Window(i, w)} :
                 \A j \in Window(i, w) : Le(m, xs[j])]

\* Series.rolling(window=w).max()
RollingMax(xs, w) ==
    [i \in 1..Len(xs) |->
        IF i < w THEN NaN
        ELSE CHOOSE m \in {xs[j] : j \in Window(i, w)} :
                 \A j \in Window(i, w) : Ge(m, xs[j])]

RECURSIVE SumRange(_, _, _)
SumRange(xs, lo, hi) ==
    IF lo > hi THEN Float(0) ELSE Add(SumRange(xs, lo, hi - 1), xs[hi])

\* a rolling mean over whatever observations the window holds (min_periods=1)
RollingMeanNoMinPeriods(xs, w) ==
    [i \in 1..Len(xs) |->
        LET obs == {j \in Window(i, w) : j >= 1 /\ IsNum(xs[j])}
            zeroed == [j \in 1..Len(xs) |-> IF IsNum(xs[j]) THEN xs[j] ELSE Float(0)]
        IN  IF obs = {} THEN NaN
            ELSE Div(SumRange(zeroed, IF i - w + 1 < 1 THEN 1 ELSE i - w + 1, i),
                     Float(Cardinality(obs)))]

\* Series.rolling(window=w).mean(), min_periods = w: the rolling routines take
\* +-inf as NaN, and a window holding a NaN has fewer than w observations
RollingMean(xs, w) ==
    [i \in 1..Len(xs) |->
        IF i < w \/ \E j \in Window(i, w) : ~IsNum(xs[j]) THEN NaN
        ELSE Div(SumRange(xs, i - w + 1, i), Float(w))]

\* a %K whose denominator is the bar's own High - Low instead of the rolling range
StochKOwnRange(f, k_period) ==
    LET low_min == RollingMin(f.cols["Low"], k_period)
    IN  [i \in 1..NRows(f) |->
            Mul(Div(Sub(f.cols["Close"][i], low_min[i]),
                    Sub(f.cols["High"][i], f.cols["Low"][i])), Float(100))]

\* the %K line: (Close - low_min) / (high_max - low_min) * 100
StochK(f, k_period) ==
    LET low_min  == RollingMin(f.cols["Low"], k_period)
        high_max == RollingMax(f.cols["High"], k_period)
    IN  [i \in 1..NRows(f) |->
            Mul(Div(Sub(f.cols["Close"][i], low_min[i]),
                    Sub(high_max[i], low_min[i])), Float(100))]

calculate_stochastics(f, k_period, d_period) ==
    LET K == StochK(f, k_period)
    IN  WithCol(WithCol(f, "%K", K), "%D", RollingMean(K, d_period))

calculate_ema(f, period) == WithCol(f, "EMA_200", Ewm(f.cols["Close"], period))

calculate_macd(f, fast, slow, signal) ==
    LET exp1 == Ewm(f.cols["Close"], fast)
        exp2 == Ewm(f.cols["Close"], slow)
        macd == [i \in 1..NRows(f) |-> Sub(exp1[i], exp2[i])]
    IN  WithCol(WithCol(f, "MACD", macd), "MACD_Signal", Ewm(macd, signal))

(***************************************************************************)
(* Signal rules, on rows i and i-1 of the frame (1-based positions).  The  *)
(* source tests Close against EMA_200 first; the comparisons have no       *)
(* effect, so the conjunction does not depend on their order.              *)
(***************************************************************************)
\* a buy condition that never applies the MACD filter
BuyConditionNoMacd(f, i, use_macd) ==
    /\ Lt(f.cols["%K"][i], Float(20))
    /\ Lt(f.cols["%K"][i - 1], f.cols["%D"][i - 1])
    /\ Gt(f.cols["%K"][i], f.cols["%D"][i])
    /\ Le(f.cols["%K"][i], Float(20))
    /\ Gt(f.cols["Close"][i], f.cols["EMA_200"][i])

\* buy_condition of the loop body
BuyCondition(f, i, use_macd) ==
    /\ Lt(f.cols["%K"][i], Float(20))
    /\ Lt(f.cols["%K"][i - 1], f.cols["%D"][i - 1])
    /\ Gt(f.cols["%K"][i], f.cols["%D"][i])
    /\ Le(f.cols["%K"][i], Float(20))
    /\ Gt(f.cols["Close"][i], f.cols["EMA_200"][i])
    /\ use_macd => Gt(f.cols["MACD"][i], f.cols["MACD_Signal"][i])

\* sell_condition of the loop body
SellCondition(f, i, use_macd) ==
    /\ Gt(f.cols["%K"][i], Float(80))
    /\ Gt(f.cols["%K"][i - 1], f.cols["%D"][i - 1])
    /\ Lt(f.cols["%K"][i], f.cols["%D"][i])
    /\ Ge(f.cols["%K"][i], Float(80))
    /\ Lt(f.cols["Close"][i], f.cols["EMA_200"][i])
    /\ use_macd => Lt(f.cols["MACD"][i], f.cols["MACD_Signal"][i])

\* the signals list: '' for the first row, then one entry per later row
SignalList(f, use_macd) ==
    [i \in 1..(IF NRows(f) = 0 THEN 1 ELSE NRows(f)) |->
        IF i = 1 THEN ""
        ELSE IF BuyCondition(f, i, use_macd) THEN "Buy"
        ELSE IF SellCondition(f, i, use_macd) THEN "Sell"
        ELSE ""]

(***************************************************************************)
(* Inputs.                                                                 *)
(***************************************************************************)
\* bars near the bottom of a 0..10 range and near the top of a 2..8 range
OversoldBars == {Bar(10, 0, 1), Bar(10, 0, 0)}

OverboughtBars == {Bar(8, 2, 7), Bar(8, 2, 8)}

\* a bar with High = Low
FlatBar == Bar(4, 4, 4)

\* a bar that closes at its High, the level of the flat bar
TopBar == Bar(4, 0, 4)

\* bars whose Close lies outside [Low, High]
ImplausibleBars == {Bar(4, 4, 12), Bar(4, 4, -4)}

StochBars ==
    {Bar(10, 0, 1), Bar(10, 0, 0), Bar(8, 2, 8), Bar(4, 4, 4)} \cup ImplausibleBars

SeriesOf(bars, maxLen) == UNION {[1..n -> bars] : n \in 0..maxLen}

Repeat(b, n) == [i \in 1..n |-> b]

\* the bars before a turn, closing at their Low or at their High
LeadBars == {Bar(10, 0, 0), Bar(8, 2, 8)}

\* the turn: a bar just below its High
TurnBars == {Bar(8, 2, 7), TopBar}

\* what precedes the last bars of a series: nothing; one bar repeated over the
\* longest window; or a few bars, a turn and a market that stays flat over the
\* longest window
Histories ==
    {<<>>}
    \cup {Repeat(x, K_PERIOD_TATAMOTORS) : x \in OversoldBars \cup OverboughtBars}
    \cup {Repeat(x, D_PERIOD_TATAMOTORS - 1) \o <<y>> \o Repeat(FlatBar, K_PERIOD_TATAMOTORS) :
            x \in LeadBars, y \in TurnBars}

\* the last bars of a series: all oversold or all overbought
Tails(maxLen) == SeriesOf(OversoldBars, maxLen) \cup SeriesOf(OverboughtBars, maxLen)

InputSeries(maxLen) == {h \o t : h \in Histories, t \in Tails(maxLen)}

Config(k, d, use_macd) ==
    [k_period |-> k, d_period |-> d, period |-> EMA_PERIOD, use_macd |-> use_macd,
     fast |-> MACD_FAST, slow |-> MACD_SLOW, signal |-> MACD_SIGNAL]

\* the windows stochastic_strategy runs with: its helpers' defaults
DefaultConfig(i, use_macd) ==
    IF i = "script" THEN Config(K_PERIOD_SCRIPT, D_PERIOD_SCRIPT, use_macd)
    ELSE Config(K_PERIOD_TATAMOTORS, D_PERIOD_TATAMOTORS, FALSE)

\* the windows calculate_stochastics is called with directly
Configs == {Config(k, d, FALSE) : k \in 1..MaxK, d \in 1..MaxD}

(***************************************************************************)
(* stochastic_strategy, one step per statement of its body.                *)
(***************************************************************************)
\* script: data is the caller's object, so every assignment shows in df
Alias(newData) == df' = IF impl = "script" THEN newData ELSE df

Init ==
    /\ impl \in {"script", "tatamotors"}
    /\ input \in InputSeries(MaxTail)
    /\ cfg \in {DefaultConfig(impl, u) : u \in (IF impl = "script" THEN BOOLEAN ELSE {FALSE})}
    /\ df = FrameOf(input)
    /\ data = FrameOf(input)
    /\ pc = "start"

\* tatamotors: data = data.copy()
Copy ==
    /\ impl = "tatamotors"
    /\ pc = "start"
    /\ pc' = "copied"
    /\ UNCHANGED <<impl, input, cfg, df, data>>

CalculateEma ==
    /\ pc = (IF impl = "script" THEN "start" ELSE "copied")
    /\ data' = calculate_ema(data, cfg.period)
    /\ Alias(data')
    /\ pc' = "ema"
    /\ UNCHANGED <<impl, input, cfg>>

CalculateStochastics ==
    /\ pc = "ema"
    /\ data' = calculate_stochastics(data, cfg.k_period, cfg.d_period)
    /\ Alias(data')
    /\ pc' = "stoch"
    /\ UNCHANGED <<impl, input, cfg>>

\* script: if use_macd: data = calculate_macd(data)
CalculateMacd ==
    /\ impl = "script"
    /\ pc = "stoch"
    /\ cfg.use_macd
    /\ data' = calculate_macd(data, cfg.fast, cfg.slow, cfg.signal)
    /\ Alias(data')
    /\ pc' = "macd"
    /\ UNCHANGED <<impl, input, cfg>>

\* tatamotors: data = data.dropna(subset=['EMA_200', '%K', '%D'])
Dropna ==
    /\ impl = "tatamotors"
    /\ pc = "stoch"
    /\ data' = dropna(data, {"EMA_200", "%K", "%D"})
    /\ pc' = "dropped"
    /\ UNCHANGED <<impl, input, cfg, df>>

\* the signal loop, data['Signal'] = signals and return data
Signals ==
    /\ pc = (IF impl = "tatamotors" THEN "dropped"
             ELSE IF cfg.use_macd THEN "macd" ELSE "stoch")
    /\ data' = SetItem(data, "Signal", SignalList(data, cfg.use_macd))
    /\ Alias(data')
    /\ pc' = "returned"
    /\ UNCHANGED <<impl, input, cfg>>

Next ==
    \/ Copy
    \/ CalculateEma
    \/ CalculateStochastics
    \/ CalculateMacd
    \/ Dropna
    \/ Signals

Spec == Init /\ [][Next]_vars

(***************************************************************************)
(* The script alone, with and without its MACD filter.                     *)
(***************************************************************************)
InitScript ==
    /\ impl = "script"
    /\ input \in InputSeries(MaxTailScript)
    /\ cfg \in {DefaultConfig(impl, u) : u \in BOOLEAN}
    /\ df = FrameOf(input)
    /\ data = FrameOf(input)
    /\ pc = "start"

NextScript ==
    \/ CalculateEma
    \/ CalculateStochastics
    \/ CalculateMacd
    \/ Signals

SpecScript == InitScript /\ [][NextScript]_vars

(***************************************************************************)
(* calculate_stochastics called on its own, on bars taken as opaque reals. *)
(***************************************************************************)
InitStochastics ==
    /\ impl = "script"
    /\ input \in SeriesOf(StochBars, MaxLenStoch)
    /\ cfg \in Configs
    /\ df = FrameOf(input)
    /\ data = FrameOf(input)
    /\ pc = "call_stochastics"

CallCalculateStochastics ==
    /\ pc = "call_stochastics"
    /\ data' = calculate_stochastics(data, cfg.k_period, cfg.d_period)
    /\ df' = data'
    /\ pc' = "stochastics_returned"
    /\ UNCHANGED <<impl, input, cfg>>

NextStochastics == CallCalculateStochastics

SpecStochastics == InitStochastics /\ [][NextStochastics]_vars

(***************************************************************************)
(* Reference values for the properties: the indicators of the input        *)
(* series, bar by bar (position p is bar p-1 of the input).                *)
(***************************************************************************)
BaseColumns == {"High", "Low", "Close"}

InputIndicators ==
    LET f == calculate_stochastics(calculate_ema(FrameOf(input), cfg.period),
                                   cfg.k_period, cfg.d_period)
    IN  IF cfg.use_macd THEN calculate_macd(f, cfg.fast, cfg.slow, cfg.signal) ELSE f

HasRow(label) == \E r \in 1..NRows(data) : data.index[r] = label

RowOf(label) == CHOOSE r \in 1..NRows(data) : data.index[r] = label

SignalAt(label) == data.cols["Signal"][RowOf(label)]

Returned == pc = "returned"

\* the buy rule on bars p and p-1 of the indicator frame ind
BuyRule(ind, p) ==
    /\ Lt(ind.cols["%K"][p], Float(20))
    /\ Le(ind.cols["%K"][p], Float(20))
    /\ Lt(ind.cols["%K"][p - 1], ind.cols["%D"][p - 1])
    /\ Gt(ind.cols["%K"][p], ind.cols["%D"][p])
    /\ Gt(ind.cols["Close"][p], ind.cols["EMA_200"][p])
    /\ cfg.use_macd => Gt(ind.cols["MACD"][p], ind.cols["MACD_Signal"][p])

\* the sell rule on bars p and p-1 of the indicator frame ind
SellRule(ind, p) ==
    /\ Gt(ind.cols["%K"][p], Float(80))
    /\ Ge(ind.cols["%K"][p], Float(80))
    /\ Gt(ind.cols["%K"][p - 1], ind.cols["%D"][p - 1])
    /\ Lt(ind.cols["%K"][p], ind.cols["%D"][p])
    /\ Lt(ind.cols["Close"][p], ind.cols["EMA_200"][p])
    /\ cfg.use_macd => Lt(ind.cols["MACD"][p], ind.cols["MACD_Signal"][p])

RequiredUndefined(ind, p) ==
    \/ \E c \in {"EMA_200", "%K", "%D"} : ~IsNum(ind.cols[c][p])
    \/ p >= 2 /\ \E c \in {"%K", "%D"} : ~IsNum(ind.cols[c][p - 1])
    \/ cfg.use_macd /\ \E c \in {"MACD", "MACD_Signal"} : ~IsNum(ind.cols[c][p])

Malformed(c) ==
    \/ c.k_period <= 0 \/ c.d_period <= 0 \/ c.period <= 0
    \/ c.use_macd /\ (c.fast <= 0 \/ c.slow <= 0 \/ c.signal <= 0 \/ c.fast >= c.slow)

(***************************************************************************)
(* C1: for a non-empty input the returned series has exactly the input's   *)
(* rows, in the input's order, with the input's bars.                      *)
(***************************************************************************)
C1_LengthAndOrderPreserved ==
    (Returned /\ input # <<>>) =>
        /\ data.index = FrameOf(input).index
        /\ \A c \in BaseColumns : data.cols[c] = FrameOf(input).cols[c]

(***************************************************************************)
(* C2: bar i >= 1 of the input carries the signal Buy if and only if the   *)
(* buy rule holds on the input's adjacent bars i and i-1.                  *)
(***************************************************************************)
C2_BuyIffRuleOnAdjacentBars ==
    Returned =>
        LET ind == InputIndicators
        IN  \A p \in 2..Len(input) :
                (HasRow(p - 1) /\ SignalAt(p - 1) = "Buy") <=> BuyRule(ind, p)

(***************************************************************************)
(* C3: bar i >= 1 of the input carries the signal Sell if and only if the  *)
(* sell rule holds on the input's adjacent bars i and i-1; the buy and the *)
(* sell rule never hold together.                                          *)
(***************************************************************************)
C3_SellIffRuleOnAdjacentBars ==
    Returned =>
        LET ind == InputIndicators
        IN  \A p \in 2..Len(input) :
                /\ (HasRow(p - 1) /\ SignalAt(p - 1) = "Sell") <=> SellRule(ind, p)
                /\ ~(BuyRule(ind, p) /\ SellRule(ind, p))

(***************************************************************************)
(* C4: a bar for which an indicator value the rules read (at the bar or at *)
(* the bar before it in the input) is undefined carries no Buy and no Sell.*)
(***************************************************************************)
C4_UndefinedGivesNoSignal ==
    Returned =>
        LET ind == InputIndicators
        IN  \A p \in 1..Len(input) :
                (RequiredUndefined(ind, p) /\ HasRow(p - 1)) => SignalAt(p - 1) = ""

(***************************************************************************)
(* C5: calculate_stochastics reports %K as undefined (NaN) at every bar    *)
(* whose full rolling window has max(High) - min(Low) = 0, whatever the    *)
(* bar's Close is; never +inf or -inf.                                     *)
(***************************************************************************)
ZeroRange(p) ==
    /\ p >= cfg.k_period
    /\ \A i, j \in Window(p, cfg.k_period) : input[i].High = input[j].Low

C5_ZeroRangeIsUndefined ==
    pc = "stochastics_returned" =>
        \A p \in 1..Len(input) : ZeroRange(p) => IsNaN(data.cols["%K"][p])

(***************************************************************************)
(* C6: an empty series or a malformed configuration is rejected before any *)
(* indicator is computed: no column is attached and nothing is returned.   *)
(***************************************************************************)
C6_RejectedBeforeAnyComputation ==
    (input = <<>> \/ Malformed(cfg)) =>
        /\ ~Returned
        /\ Columns(data) = BaseColumns

(***************************************************************************)
(* C7: the caller's input series is never changed: it keeps its bars and   *)
(* gets no indicator or signal column.                                     *)
(***************************************************************************)
C7_InputNotMutated == df = FrameOf(input)

(***************************************************************************)
(* C8: with the MACD filter on, a bar that meets the five non-MACD buy     *)
(* (sell) conditions but not MACD > MACD_Signal (MACD < MACD_Signal) gets  *)
(* no signal; with the filter off no MACD column is computed and the       *)
(* signal is decided by the five non-MACD conditions alone.                *)
(***************************************************************************)
NonMacdBuy(p) ==
    /\ Lt(data.cols["%K"][p], Float(20))
    /\ Le(data.cols["%K"][p], Float(20))
    /\ Lt(data.cols["%K"][p - 1], data.cols["%D"][p - 1])
    /\ Gt(data.cols["%K"][p], data.cols["%D"][p])
    /\ Gt(data.cols["Close"][p], data.cols["EMA_200"][p])

NonMacdSell(p) ==
    /\ Gt(data.cols["%K"][p], Float(80))
    /\ Ge(data.cols["%K"][p], Float(80))
    /\ Gt(data.cols["%K"][p - 1], data.cols["%D"][p - 1])
    /\ Lt(data.cols["%K"][p], data.cols["%D"][p])
    /\ Lt(data.cols["Close"][p], data.cols["EMA_200"][p])

MacdAbove(p) == Gt(data.cols["MACD"][p], data.cols["MACD_Signal"][p])

MacdBelow(p) == Lt(data.cols["MACD"][p], data.cols["MACD_Signal"][p])

C8_MacdGating ==
    Returned =>
        IF cfg.use_macd
        THEN \A p \in 2..NRows(data) :
                /\ (NonMacdBuy(p) /\ ~MacdAbove(p)) => data.cols["Signal"][p] = ""
                /\ (NonMacdSell(p) /\ ~MacdBelow(p)) => data.cols["Signal"][p] = ""
        ELSE /\ Columns(data) \cap {"MACD", "MACD_Signal"} = {}
             /\ \A p \in 2..NRows(data) :
                   /\ data.cols["Signal"][p] = "Buy" <=> NonMacdBuy(p)
                   /\ data.cols["Signal"][p] = "Sell" <=> NonMacdSell(p)

\* a buy setup that the MACD filter turns into no signal
C8_Witness ==
    /\ Returned
    /\ cfg.use_macd
    /\ \E p \in 2..NRows(data) :
          NonMacdBuy(p) /\ ~MacdAbove(p) /\ data.cols["Signal"][p] = ""

(***************************************************************************)
(* C9 as stated: every defined %K lies in [0, 100], for every input.       *)
(***************************************************************************)
KInBand(p) ==
    IsNum(data.cols["%K"][p]) =>
        /\ Ge(data.cols["%K"][p], Float(0))
        /\ Le(data.cols["%K"][p], Float(100))

C9_KBoundedForEveryInput ==
    pc = "stochastics_returned" => \A p \in 1..Len(input) : KInBand(p)

(***************************************************************************)
(* C9 amended: when every bar of the input has Low <= Close <= High, every *)
(* %K that calculate_stochastics produces is NaN or lies in [0, 100].      *)
(***************************************************************************)
CloseWithinBar(b) == b.Low <= b.Close /\ b.Close <= b.High

C9_KBoundedWhenCloseWithinBar ==
    (pc = "stochastics_returned" /\ \A i \in 1..Len(input) : CloseWithinBar(input[i])) =>
        \A p \in 1..Len(input) :
            /\ ~IsInf(data.cols["%K"][p])
            /\ KInBand(p)

\* plausible bars over a two-bar window, with %K reaching both ends of the band
C9_Witness ==
    /\ pc = "stochastics_returned"
    /\ cfg.k_period = 2
    /\ \A i \in 1..Len(input) : CloseWithinBar(input[i])
    /\ \E p \in 1..Len(input) : Eq(data.cols["%K"][p], Float(100))
    /\ \E p \in 1..Len(input) : Eq(data.cols["%K"][p], Float(0))

(***************************************************************************)
(* C10: %D[i] is defined exactly when %K[i-d_period+1..i] are all defined, *)
(* and is then their mean; %D is undefined for i < k_period+d_period-2; an *)
(* undefined %K followed by d_period defined ones leaves %D undefined at   *)
(* the d_period bars whose window holds it and defined again right after.  *)
(***************************************************************************)
RECURSIVE SumOfK(_)
SumOfK(ps) ==
    IF ps = {} THEN Float(0)
    ELSE LET p == CHOOSE q \in ps : TRUE
         IN  Add(data.cols["%K"][p], SumOfK(ps \ {p}))

WindowDefined(p) ==
    /\ p >= cfg.d_period
    /\ \A j \in Window(p, cfg.d_period) : IsNum(data.cols["%K"][j])

C10_DIsMeanOfDefinedWindow ==
    pc = "stochastics_returned" =>
        \A p \in 1..Len(input) :
            /\ IsNum(data.cols["%D"][p]) <=> WindowDefined(p)
            /\ ~IsNum(data.cols["%D"][p]) => IsNaN(data.cols["%D"][p])
            /\ WindowDefined(p) =>
                  Eq(Mul(data.cols["%D"][p], Float(cfg.d_period)),
                     SumOfK(Window(p, cfg.d_period)))
            /\ p < cfg.k_period + cfg.d_period - 1 => IsNaN(data.cols["%D"][p])
            /\ ( /\ ~IsNum(data.cols["%K"][p])
                 /\ p + cfg.d_period <= Len(input)
                 /\ \A j \in (p + 1)..(p + cfg.d_period) : IsNum(data.cols["%K"][j]) )
               => /\ \A q \in p..(p + cfg.d_period - 1) : IsNaN(data.cols["%D"][q])
                  /\ IsNum(data.cols["%D"][p + cfg.d_period])

\* a zero-range bar after a defined %K: %D undefined over the two windows that
\* hold it, defined again after, as the mean of two different %K values
C10_Witness ==
    /\ pc = "stochastics_returned"
    /\ cfg.d_period = 2
    /\ \E p \in 2..Len(input) :
          /\ ZeroRange(p)
          /\ IsNum(data.cols["%K"][p - 1])
          /\ p + 2 <= Len(input)
          /\ IsNaN(data.cols["%D"][p]) /\ IsNaN(data.cols["%D"][p + 1])
          /\ IsNum(data.cols["%D"][p + 2])
          /\ ~Eq(data.cols["%D"][p + 2], data.cols["%K"][p + 2])

====
